---- MODULE Spec2Model ----
(***************************************************************************)
(* swc-plugin-transform-import: the import rewriter                        *)
(* (PluginTransformImport.visitModuleItems) and its path resolver          *)
(* (transformImportPath), src/src/index.ts.                                *)
(*                                                                         *)
(* Strings are sequences of one-character strings, so that the regular     *)
(* expressions and String.prototype.replace of the source are computed     *)
(* character by character.  The JavaScript values null and undefined are   *)
(* the one-element sequences Null and Undefined, which no string equals.   *)
(***************************************************************************)
EXTENDS Naturals, Sequences, FiniteSets, TLC

VARIABLES
    supplied,          \* the constructor's argument `opts` (Undefined when omitted)
    opts,              \* this.opts, the normalised configuration table
    nodes,             \* visitModuleItems' argument
    i,                 \* position of the outer for-of loop in nodes (1-based)
    transformedNodes,  \* the local array the loop pushes to
    pc,                \* "idle" | "loop" | "returned" | "threw" | "resolve" | "resolved"
    result,            \* the value visitModuleItems returned (when pc = "returned")
    error,             \* the value thrown (when pc = "threw")
    transformOption,   \* transformImportPath's first argument (resolver harness)
    importName,        \* transformImportPath's second argument (resolver harness)
    resolved           \* transformImportPath's outcome (resolver harness)

vars == <<supplied, opts, nodes, i, transformedNodes, pc, result, error,
          transformOption, importName, resolved>>

(***************************************************************************)
(* Bounds of the model.                                                    *)
(***************************************************************************)
\* largest statement sequence handed to visitModuleItems, counting its
\* statements and their specifiers
MaxSize == 4
\* most fragments a literal template of the resolver harness is built from
MaxFragments == 5

(***************************************************************************)
(* JavaScript values.                                                      *)
(***************************************************************************)
Null == <<"null">>
Undefined == <<"undefined">>
NoError == [name |-> "none", message |-> <<"", "", <<>>>>]

UpperLetters == <<"A","B","C","D","E","F","G","H","I","J","K","L","M",
                  "N","O","P","Q","R","S","T","U","V","W","X","Y","Z">>
LowerLetters == <<"a","b","c","d","e","f","g","h","i","j","k","l","m",
                  "n","o","p","q","r","s","t","u","v","w","x","y","z">>

LowerChar(c) ==
    IF \E k \in 1..26 : UpperLetters[k] = c
    THEN LowerLetters[CHOOSE k \in 1..26 : UpperLetters[k] = c]
    ELSE c

UpperChar(c) ==
    IF \E k \in 1..26 : LowerLetters[k] = c
    THEN UpperLetters[CHOOSE k \in 1..26 : LowerLetters[k] = c]
    ELSE c

ToLowerCase(s) == [k \in 1..Len(s) |-> LowerChar(s[k])]
ToUpperCase(s) == [k \in 1..Len(s) |-> UpperChar(s[k])]

\* String(v) as a template literal `${v}` computes it
ToStringValue(v) ==
    IF v = Undefined THEN <<"u","n","d","e","f","i","n","e","d">>
    ELSE IF v = Null THEN <<"n","u","l","l">>
    ELSE v

\* the regular expression class \s (the members a path can hold)
IsWhitespace(c) == c \in {" ", "\t", "\n", "\r", "\f"}

MEMBER == <<"m","e","m","b","e","r">>

\* /\.js$/i.test(s)
EndsWithJs(s) ==
    /\ Len(s) >= 3
    /\ s[Len(s) - 2] = "."
    /\ LowerChar(s[Len(s) - 1]) = "j"
    /\ LowerChar(s[Len(s)]) = "s"

\* /[\$\{\}]/.test(s)
HasPlaceholderChar(s) == \E k \in 1..Len(s) : s[k] \in {"$", "{", "}"}

(***************************************************************************)
(* transformImportPath (index.ts 41-65) and what it calls.                 *)
(***************************************************************************)
\* barf: throw new Error('swc-plugin-transform-imports: ' + msg), msg = text + arg
barf(text, arg) ==
    [name |-> "Error", message |-> <<"swc-plugin-transform-imports: ", text, arg>>]

\* a transform option: a string, a function, or undefined (the key is absent)
StringOption(s) == [kind |-> "string", val |-> s]
FunctionOption(f) == [kind |-> "function", val |-> f]
UndefinedOption == [kind |-> "undefined", val |-> <<>>]

\* mapping functions a configuration or a .js file supplies
FN_LOWER == <<"lower">>    \* (importName) => "lib/" + importName.toLowerCase()
FN_UPPER == <<"upper">>    \* function(importName) { return 'lib/etc/' + importName.toUpperCase() }
FN_THROWS == <<"throws">>  \* a mapping function that raises
UserError == [name |-> "UserError", message |-> <<"", "raised by the mapping function", <<>>>>]

LIB == <<"l","i","b">>
REACT == <<"r","e","a","c","t">>
CONSTRUCTOR == <<"c","o","n","s","t","r","u","c","t","o","r">>
TO_STRING == <<"t","o","S","t","r","i","n","g">>

\* transformFn(importName), line 60: the value returned, or the value thrown
CallFunction(fn, name) ==
    CASE fn = FN_LOWER -> [ok |-> TRUE, value |-> LIB \o <<"/">> \o ToLowerCase(name), error |-> NoError]
      [] fn = FN_UPPER -> [ok |-> TRUE, value |-> LIB \o <<"/","e","t","c","/">> \o ToUpperCase(name), error |-> NoError]
      [] OTHER -> [ok |-> FALSE, value |-> Undefined, error |-> UserError]

\* the files require() finds: t.js exports a function, r.js a function that
\* raises, o.JS an object; every other path fails to load
TRANSFORM_JS == <<"t",".","j","s">>
RAISING_JS == <<"r",".","j","s">>
OBJECT_JS == <<"o",".","J","S">>
MISSING_JS == <<"x",".","j","s">>

Require(path) ==
    CASE path = TRANSFORM_JS -> [loaded |-> TRUE, exports |-> FunctionOption(FN_UPPER)]
      [] path = RAISING_JS -> [loaded |-> TRUE, exports |-> FunctionOption(FN_THROWS)]
      [] path = OBJECT_JS -> [loaded |-> TRUE, exports |-> [kind |-> "object", val |-> <<>>]]
      [] OTHER -> [loaded |-> FALSE, exports |-> UndefinedOption]

\* lines 42: !transformOption
IsFalsyOption(opt) ==
    \/ opt.kind = "undefined"
    \/ opt.kind = "string" /\ opt.val = <<>>

\* line 47: the option names a function (a .js file without placeholder characters, or a function)
IsFunctionOption(opt) ==
    \/ opt.kind = "string" /\ EndsWithJs(opt.val) /\ ~HasPlaceholderChar(opt.val)
    \/ opt.kind = "function"

\* lines 50-54 without the try/catch: the loader's own error escapes
LoadTransformFn_Uncaught(opt) ==
    IF opt.kind = "function"
    THEN [ok |-> TRUE, value |-> opt, error |-> NoError]
    ELSE IF Require(opt.val).loaded
         THEN [ok |-> TRUE, value |-> Require(opt.val).exports, error |-> NoError]
         ELSE [ok |-> FALSE, value |-> UndefinedOption,
               error |-> [name |-> "Error", message |-> <<"", "Cannot find module ", opt.val>>]]

\* lines 50-54: transformFn, or the error of a failed require
LoadTransformFn(opt) ==
    IF opt.kind = "function"
    THEN [ok |-> TRUE, value |-> opt, error |-> NoError]
    ELSE IF Require(opt.val).loaded
         THEN [ok |-> TRUE, value |-> Require(opt.val).exports, error |-> NoError]
         ELSE [ok |-> FALSE, value |-> UndefinedOption,
               error |-> barf("failed to require transform file ", opt.val)]

\* lines 56-60: the callable check, then the call
InvokeTransformFn(opt, transformFn, name) ==
    IF transformFn.kind # "function"
    THEN [ok |-> FALSE, value |-> Undefined,
          error |-> barf("expected transform function to be exported from ", opt.val)]
    ELSE CallFunction(transformFn.val, name)

\* the match of /\$\{\s?member\s?\}/i starting at position p of s: its length, or 0
MatchLen(s, p) ==
    IF ~(p + 1 <= Len(s) /\ s[p] = "$" /\ s[p + 1] = "{") THEN 0
    ELSE LET a == IF p + 2 <= Len(s) /\ IsWhitespace(s[p + 2]) THEN p + 3 ELSE p + 2
             b == a + Len(MEMBER)
         IN  IF ~(b - 1 <= Len(s) /\ \A k \in 1..Len(MEMBER) : LowerChar(s[a + k - 1]) = MEMBER[k])
             THEN 0
             ELSE LET c == IF b <= Len(s) /\ IsWhitespace(s[b]) THEN b + 1 ELSE b
                  IN  IF c <= Len(s) /\ s[c] = "}" THEN c - p + 1 ELSE 0

\* GetSubstitution of String.prototype.replace for a pattern without capture
\* groups: $$ is "$" and $& is the match; $ before any other character that an
\* import name can hold stands for itself
RECURSIVE GetSubstitution(_, _, _)
GetSubstitution(replacement, k, matched) ==
    IF k > Len(replacement) THEN <<>>
    ELSE IF replacement[k] = "$" /\ k < Len(replacement) /\ replacement[k + 1] \in {"$", "&"}
         THEN (IF replacement[k + 1] = "$" THEN <<"$">> ELSE matched)
              \o GetSubstitution(replacement, k + 2, matched)
         ELSE <<replacement[k]>> \o GetSubstitution(replacement, k + 1, matched)

\* what one match of the pattern at p (of length n) is replaced by
Substitute(s, p, n, replacement) ==
    GetSubstitution(replacement, 1, SubSeq(s, p, p + n - 1))

\* line 63: s.replace(/\$\{\s?member\s?\}/ig, replacement), from position p on
RECURSIVE ReplaceFrom(_, _, _)
ReplaceFrom(s, p, replacement) ==
    IF p > Len(s) THEN <<>>
    ELSE LET n == MatchLen(s, p)
         IN  IF n > 0
             THEN Substitute(s, p, n, replacement) \o ReplaceFrom(s, p + n, replacement)
             ELSE <<s[p]>> \o ReplaceFrom(s, p + 1, replacement)

ReplaceMember(s, replacement) == ReplaceFrom(s, 1, replacement)

\* transformImportPath: [ok, value, error]; value is what it returns, error what it throws
transformImportPath(opt, name) ==
    IF IsFalsyOption(opt) THEN [ok |-> TRUE, value |-> Undefined, error |-> NoError]
    ELSE IF IsFunctionOption(opt)
         THEN LET loaded == LoadTransformFn(opt)
              IN  IF loaded.ok THEN InvokeTransformFn(opt, loaded.value, name) ELSE loaded
         ELSE [ok |-> TRUE, value |-> ReplaceMember(opt.val, name), error |-> NoError]

(***************************************************************************)
(* The configuration table (index.ts 7-34, 67-80).                         *)
(***************************************************************************)
DEFAULT_OPTS ==
    [preventFullImport |-> FALSE, skipDefaultConversion |-> FALSE, style |-> FALSE]

\* { ...a, ...b }
Spread(a, b) == [f \in DOMAIN a \cup DOMAIN b |-> IF f \in DOMAIN b THEN b[f] ELSE a[f]]

\* the constructor: opts defaults to {}, every entry gets the default options
Constructor(arg) ==
    LET given == IF arg.given THEN arg.table ELSE <<>>
    IN  [key \in DOMAIN given |-> Spread(DEFAULT_OPTS, given[key])]

\* property names every object literal inherits from Object.prototype
ObjectPrototypeKeys == {CONSTRUCTOR, TO_STRING}

\* line 94: node.source.value in opts (own and inherited properties)
InOpts(key, o) == key \in DOMAIN o \/ key \in ObjectPrototypeKeys

\* line 106: opts[source.value]; an inherited property is a built-in without rule fields
GetOpts(o, key) == IF key \in DOMAIN o THEN o[key] ELSE <<>>

\* line 106: the destructured fields; an absent field is undefined
RuleTransform(rule) == IF "transform" \in DOMAIN rule THEN rule.transform ELSE UndefinedOption
RuleFlag(rule, f) == f \in DOMAIN rule /\ rule[f]

(***************************************************************************)
(* Statements and specifiers (the parser's tree, index.ts 1-4).            *)
(***************************************************************************)
ImportSpecifier(imported, local) ==
    [type |-> "ImportSpecifier", local |-> local, imported |-> imported]
ImportDefaultSpecifier(local) ==
    [type |-> "ImportDefaultSpecifier", local |-> local, imported |-> Null]
ImportNamespaceSpecifier(local) ==
    [type |-> "ImportNamespaceSpecifier", local |-> local, imported |-> Null]
ImportDeclaration(source, specifiers) ==
    [type |-> "ImportDeclaration", source |-> [type |-> "StringLiteral", value |-> source],
     specifiers |-> specifiers]

(***************************************************************************)
(* visitModuleItems (index.ts 82-183).                                     *)
(***************************************************************************)
\* line 88 returning the local array instead of the argument
EarlyReturn_Transformed(ns, transformed) == transformed

\* line 88: the return of a rewriter without options
EarlyReturn(ns, transformed) == ns

\* line 97 with unshift for push
PushNode_Front(transformed, node) == <<node>> \o transformed

\* line 97: transformedNodes.push(node)
PushNode(transformed, node) == Append(transformed, node)

\* line 94
isValidTranformCandidate(node, o) ==
    node.type = "ImportDeclaration" /\ InOpts(node.source.value, o)

\* line 107
isDefaultImportExist(node) ==
    \E k \in 1..Len(node.specifiers) : node.specifiers[k].type = "ImportDefaultSpecifier"

\* line 119: a string is truthy when it is not empty
doesImportedValueExist(specifier) ==
    /\ specifier.type = "ImportSpecifier"
    /\ specifier.imported # Null
    /\ specifier.imported # <<>>

\* line 120 taking the local name whatever the imported name is
actualImportVariable_Local(specifier) == specifier.local

\* line 120
actualImportVariable(specifier) ==
    IF doesImportedValueExist(specifier) THEN specifier.imported ELSE specifier.local

\* line 121
shouldSkipDefaultConversion(specifier, rule) ==
    RuleFlag(rule, "skipDefaultConversion") /\ doesImportedValueExist(specifier)

\* lines 133-139
newSpecifier(specifier, rule) ==
    IF shouldSkipDefaultConversion(specifier, rule) THEN specifier
    ELSE [specifier EXCEPT !.imported = Null, !.type = "ImportDefaultSpecifier"]

\* lines 142-150
copyNode(node, value, specifier) ==
    [node EXCEPT !.source = [node.source EXCEPT !.value = value],
                 !.specifiers = <<specifier>>,
                 !.type = "ImportDeclaration"]

\* line 159: `${value}/style`
StylePath(value) == ToStringValue(value) \o <<"/","s","t","y","l","e">>

\* lines 155-163
styleNode(node, value) ==
    [node EXCEPT !.source = [node.source EXCEPT !.value = StylePath(value)],
                 !.specifiers = <<>>,
                 !.type = "ImportDeclaration"]

\* lines 154-166 without the test of `style`
StyleNodes_Always(node, value, rule) == <<styleNode(node, value)>>

\* lines 154-166: what follows copyNode
StyleNodes(node, value, rule) ==
    IF RuleFlag(rule, "style") THEN <<styleNode(node, value)>> ELSE <<>>

\* lines 169-172
nameImportsFilteredNode(node, specifier) == [node EXCEPT !.specifiers = <<specifier>>]

\* lines 118-175, one specifier: what is pushed, or what is thrown
VisitSpecifier(node, specifier, rule) ==
    IF specifier.type = "ImportSpecifier"
    THEN LET path == transformImportPath(RuleTransform(rule), actualImportVariable(specifier))
         IN  IF path.ok
             THEN [ok |-> TRUE, error |-> NoError,
                   pushed |-> <<copyNode(node, path.value, newSpecifier(specifier, rule))>>
                              \o StyleNodes(node, path.value, rule)]
             ELSE [ok |-> FALSE, error |-> path.error, pushed |-> <<>>]
    ELSE IF specifier.type = "ImportDefaultSpecifier"
         THEN [ok |-> TRUE, error |-> NoError,
               pushed |-> <<nameImportsFilteredNode(node, specifier)>>]
         ELSE [ok |-> TRUE, error |-> NoError, pushed |-> <<>>]

\* lines 117-176: the specifiers from k on, after `pushed` was pushed
RECURSIVE VisitSpecifiers(_, _, _, _)
VisitSpecifiers(node, rule, k, pushed) ==
    IF k > Len(node.specifiers) THEN [ok |-> TRUE, error |-> NoError, pushed |-> pushed]
    ELSE LET one == VisitSpecifier(node, node.specifiers[k], rule)
         IN  IF one.ok
             THEN VisitSpecifiers(node, rule, k + 1, pushed \o one.pushed)
             ELSE [ok |-> FALSE, error |-> one.error, pushed |-> pushed]

\* line 112
FullImportError(node) ==
    barf("Import of entire module ", node.source.value)

\* line 111
IsFullImportPrevented(node, rule) ==
    isDefaultImportExist(node) /\ RuleFlag(rule, "preventFullImport")

(***************************************************************************)
(* The inputs: configurations and statement sequences.                     *)
(***************************************************************************)
TEMPLATE == LIB \o <<"/","$","{","m","e","m","b","e","r","}">>

\* rules with every combination of the three flags, over the literal template
FlagRules ==
    {[transform |-> StringOption(TEMPLATE), preventFullImport |-> p,
      skipDefaultConversion |-> s, style |-> y] : p \in BOOLEAN, s \in BOOLEAN, y \in BOOLEAN}

\* rules whose path comes from a mapping function, or from no transform at all
MappedRules ==
    {[transform |-> FunctionOption(FN_LOWER), style |-> TRUE], [style |-> TRUE],
     [transform |-> FunctionOption(FN_THROWS)]}

\* rules with every kind of transform option, the flags left to their defaults
TransformRules ==
    {[transform |-> t] : t \in {StringOption(TEMPLATE), StringOption(<<>>),
                                StringOption(TRANSFORM_JS), StringOption(OBJECT_JS),
                                StringOption(MISSING_JS), StringOption(RAISING_JS),
                                FunctionOption(FN_LOWER), FunctionOption(FN_THROWS)}}

\* what the constructor is given: nothing, an empty table, or a rule for "lib"
SuppliedOpts ==
    {[given |-> FALSE, table |-> <<>>], [given |-> TRUE, table |-> <<>>]}
    \cup {[given |-> TRUE, table |-> (LIB :> r)] : r \in FlagRules \cup MappedRules}

\* the configurations that exercise the path resolver's branches
SuppliedTransformOpts ==
    {[given |-> TRUE, table |-> <<>>]}
    \cup {[given |-> TRUE, table |-> (LIB :> r)] : r \in TransformRules}
    \cup {[given |-> TRUE,
           table |-> (LIB :> [transform |-> StringOption(OBJECT_JS), preventFullImport |-> TRUE])]}

SpecifierUniverse ==
    {ImportSpecifier(Null, <<"A">>), ImportSpecifier(<<"B">>, <<"C">>),
     ImportDefaultSpecifier(<<"D">>), ImportNamespaceSpecifier(<<"N">>)}

Sources == {LIB, REACT, CONSTRUCTOR}

NonImports == {[type |-> "ExpressionStatement"]}

\* the statements with exactly k specifiers
StatementsWith(k) ==
    {ImportDeclaration(src, sp) : src \in Sources, sp \in [1..k -> SpecifierUniverse]}
    \cup (IF k = 0 THEN NonImports ELSE {})

\* the size of a statement sequence: its statements plus their specifiers;
\* the sequences of size exactly n
RECURSIVE InputsOfSize(_)
InputsOfSize(n) ==
    IF n = 0 THEN {<<>>}
    ELSE UNION {{<<st>> \o rest : st \in StatementsWith(k), rest \in InputsOfSize(n - k - 1)}
                : k \in 0..(n - 1)}

Inputs == UNION {InputsOfSize(n) : n \in 0..MaxSize}

NoResolution == [ok |-> FALSE, value |-> Undefined, error |-> NoError]

(***************************************************************************)
(* The rewriter as a state machine.                                        *)
(***************************************************************************)
Constructed(args) ==
    /\ supplied \in args
    /\ opts = Constructor(supplied)
    /\ nodes = <<>>
    /\ i = 1
    /\ transformedNodes = <<>>
    /\ pc = "idle"
    /\ result = <<>>
    /\ error = NoError
    /\ transformOption = UndefinedOption
    /\ importName = <<>>
    /\ resolved = NoResolution

Init == Constructed(SuppliedOpts)

InitTransform == Constructed(SuppliedTransformOpts)

harness == <<transformOption, importName, resolved>>

\* lines 83-89: a rewriter without options returns its argument
VisitWithoutOpts ==
    /\ pc = "idle"
    /\ DOMAIN opts = {}
    /\ \E ns \in Inputs :
          /\ nodes' = ns
          /\ result' = EarlyReturn(ns, <<>>)
    /\ pc' = "returned"
    /\ UNCHANGED <<supplied, opts, i, transformedNodes, error, harness>>

\* lines 83-91: the loop is entered
VisitBegin ==
    /\ pc = "idle"
    /\ DOMAIN opts # {}
    /\ \E ns \in Inputs : nodes' = ns
    /\ transformedNodes' = <<>>
    /\ i' = 1
    /\ pc' = "loop"
    /\ UNCHANGED <<supplied, opts, result, error, harness>>

\* lines 96-99: not a candidate, pushed as it is
PushUnchanged ==
    /\ pc = "loop"
    /\ i <= Len(nodes)
    /\ ~isValidTranformCandidate(nodes[i], opts)
    /\ transformedNodes' = PushNode(transformedNodes, nodes[i])
    /\ i' = i + 1
    /\ UNCHANGED <<supplied, opts, nodes, pc, result, error, harness>>

\* lines 104-113: a full import of a module that forbids it
ThrowFullImport ==
    /\ pc = "loop"
    /\ i <= Len(nodes)
    /\ isValidTranformCandidate(nodes[i], opts)
    /\ IsFullImportPrevented(nodes[i], GetOpts(opts, nodes[i].source.value))
    /\ error' = FullImportError(nodes[i])
    /\ pc' = "threw"
    /\ UNCHANGED <<supplied, opts, nodes, i, transformedNodes, result, harness>>

\* lines 104-176: every specifier of a candidate is visited
TransformNode ==
    /\ pc = "loop"
    /\ i <= Len(nodes)
    /\ isValidTranformCandidate(nodes[i], opts)
    /\ ~IsFullImportPrevented(nodes[i], GetOpts(opts, nodes[i].source.value))
    /\ LET visit == VisitSpecifiers(nodes[i], GetOpts(opts, nodes[i].source.value), 1, <<>>)
       IN  /\ visit.ok
           /\ transformedNodes' = transformedNodes \o visit.pushed
    /\ i' = i + 1
    /\ UNCHANGED <<supplied, opts, nodes, pc, result, error, harness>>

\* lines 117-141: transformImportPath throws at some specifier
ThrowTransform ==
    /\ pc = "loop"
    /\ i <= Len(nodes)
    /\ isValidTranformCandidate(nodes[i], opts)
    /\ ~IsFullImportPrevented(nodes[i], GetOpts(opts, nodes[i].source.value))
    /\ LET visit == VisitSpecifiers(nodes[i], GetOpts(opts, nodes[i].source.value), 1, <<>>)
       IN  /\ ~visit.ok
           /\ transformedNodes' = transformedNodes \o visit.pushed
           /\ error' = visit.error
    /\ pc' = "threw"
    /\ UNCHANGED <<supplied, opts, nodes, i, result, harness>>

\* line 182
ReturnTransformed ==
    /\ pc = "loop"
    /\ i > Len(nodes)
    /\ result' = transformedNodes
    /\ pc' = "returned"
    /\ UNCHANGED <<supplied, opts, nodes, i, transformedNodes, error, harness>>

Next ==
    \/ VisitWithoutOpts
    \/ VisitBegin
    \/ PushUnchanged
    \/ ThrowFullImport
    \/ TransformNode
    \/ ThrowTransform
    \/ ReturnTransformed

Spec == Init /\ [][Next]_vars

SpecTransform == InitTransform /\ [][Next]_vars

(***************************************************************************)
(* The path resolver on its own: transformImportPath applied to a          *)
(* transform option and an import name.                                    *)
(***************************************************************************)
Fragments ==
    {<<"a">>, <<"$","{">>, <<"}">>, <<" ">>, MEMBER, <<"M","e","m","B","E","R">>}

RECURSIVE Flatten(_)
Flatten(parts) == IF parts = <<>> THEN <<>> ELSE Head(parts) \o Flatten(Tail(parts))

\* the literal templates of at most MaxFragments fragments
Templates == {Flatten(parts) : parts \in UNION {[1..n -> Fragments] : n \in 0..MaxFragments}}

\* import names: identifiers over the letters A and $
ImportNames ==
    {<<"A">>, <<"$">>, <<"A","A">>, <<"A","$">>, <<"$","A">>, <<"$","$">>}

ResolverOptions ==
    {StringOption(t) : t \in Templates}
    \cup {StringOption(TRANSFORM_JS), StringOption(OBJECT_JS), StringOption(MISSING_JS),
          StringOption(RAISING_JS), FunctionOption(FN_LOWER), FunctionOption(FN_THROWS), UndefinedOption}

InitResolve ==
    /\ supplied = [given |-> FALSE, table |-> <<>>]
    /\ opts = Constructor(supplied)
    /\ nodes = <<>>
    /\ i = 1
    /\ transformedNodes = <<>>
    /\ pc = "resolve"
    /\ result = <<>>
    /\ error = NoError
    /\ transformOption \in ResolverOptions
    /\ importName \in ImportNames
    /\ resolved = NoResolution

rewriter == <<supplied, opts, nodes, i, transformedNodes, result>>

\* transformImportPath returns
ResolveReturns ==
    /\ pc = "resolve"
    /\ transformImportPath(transformOption, importName).ok
    /\ resolved' = transformImportPath(transformOption, importName)
    /\ pc' = "resolved"
    /\ UNCHANGED <<rewriter, error, transformOption, importName>>

\* transformImportPath throws
ResolveThrows ==
    /\ pc = "resolve"
    /\ ~transformImportPath(transformOption, importName).ok
    /\ resolved' = transformImportPath(transformOption, importName)
    /\ error' = transformImportPath(transformOption, importName).error
    /\ pc' = "threw"
    /\ UNCHANGED <<rewriter, transformOption, importName>>

NextResolve ==
    \/ ResolveReturns
    \/ ResolveThrows

SpecResolve == InitResolve /\ [][NextResolve]_vars

(***************************************************************************)
(* Vocabulary of the properties.                                           *)
(***************************************************************************)
\* the statement is an import of a module the supplied table has a rule for
IsConfigured(node) ==
    /\ node.type = "ImportDeclaration"
    /\ supplied.given
    /\ node.source.value \in DOMAIN supplied.table

\* the rule in force for a configured import: the supplied fields over the defaults
RuleOf(node) == opts[node.source.value]

\* the loop is at a statement it has still to process
AtNode == pc = "loop" /\ i <= Len(nodes)

\* the loop processed nodes[i] without throwing
Visited == AtNode /\ pc' = "loop" /\ i' = i + 1

\* what the step pushed to transformedNodes
Added == SubSeq(transformedNodes', Len(transformedNodes) + 1, Len(transformedNodes'))

IsNamed(specifier) == specifier.type = "ImportSpecifier"
IsFull(specifier) ==
    specifier.type \in {"ImportDefaultSpecifier", "ImportNamespaceSpecifier"}

NamedOf(node) == SelectSeq(node.specifiers, IsNamed)
FullOf(node) == SelectSeq(node.specifiers, IsFull)

\* a declaration that repeats node with one of its default or namespace specifiers alone
IsKeptFull(node, decl) ==
    \E k \in 1..Len(node.specifiers) :
        /\ IsFull(node.specifiers[k])
        /\ decl = [node EXCEPT !.specifiers = <<node.specifiers[k]>>]

\* the declarations among `added` that carry a specifier and are not such repeats
ConvertedOf(node, added) ==
    LET Test(decl) == decl.specifiers # <<>> /\ ~IsKeptFull(node, decl)
    IN  SelectSeq(added, Test)

\* the member name of a named specifier: the imported name, else the local name
MemberName(specifier) ==
    IF specifier.imported # Null THEN specifier.imported ELSE specifier.local

\* the Path Resolver's result for a named specifier under a rule
ResolvedPath(specifier, rule) ==
    transformImportPath(RuleTransform(rule), MemberName(specifier)).value

(***************************************************************************)
(* C1: an import of a module configured with preventFullImport that holds  *)
(* a default or a namespace specifier makes the rewrite raise the          *)
(* full-import error naming the module, and no output is returned.         *)
(***************************************************************************)
IsForbiddenFullImport(node) ==
    /\ IsConfigured(node)
    /\ RuleFlag(RuleOf(node), "preventFullImport")
    /\ \E k \in 1..Len(node.specifiers) : IsFull(node.specifiers[k])

C1_FullImportRaises ==
    /\ pc = "returned" => \A k \in 1..Len(nodes) : ~IsForbiddenFullImport(nodes[k])
    /\ (pc = "threw" /\ IsForbiddenFullImport(nodes[i])) =>
           (error = FullImportError(nodes[i]) /\ result = <<>>)

(***************************************************************************)
(* C2: without skipDefaultConversion every named specifier of a configured *)
(* import yields exactly one declaration, whose single specifier is a      *)
(* default specifier binding the local name and whose source is the        *)
(* resolver's path for the imported name (the local name when there is no  *)
(* imported name), in the order of the specifiers.                         *)
(***************************************************************************)
DefaultDeclaration(node, specifier, rule) ==
    [type |-> "ImportDeclaration",
     source |-> [type |-> "StringLiteral", value |-> ResolvedPath(specifier, rule)],
     specifiers |-> <<[type |-> "ImportDefaultSpecifier", local |-> specifier.local,
                       imported |-> Null]>>]

C2_NamedBecomesDefault ==
    [][(Visited /\ IsConfigured(nodes[i])
          /\ ~RuleFlag(RuleOf(nodes[i]), "skipDefaultConversion"))
       => LET named == NamedOf(nodes[i])
              conv == ConvertedOf(nodes[i], Added)
          IN  /\ Len(conv) = Len(named)
              /\ \A k \in 1..Len(named) :
                     conv[k] = DefaultDeclaration(nodes[i], named[k], RuleOf(nodes[i]))]_vars

\* import { A, B as C } from 'lib' became import A from 'lib/A'; import C from 'lib/B'
C2_Witness ==
    /\ pc = "returned"
    /\ nodes = <<ImportDeclaration(LIB, <<ImportSpecifier(Null, <<"A">>),
                                         ImportSpecifier(<<"B">>, <<"C">>)>>)>>
    /\ result = <<ImportDeclaration(LIB \o <<"/","A">>, <<ImportDefaultSpecifier(<<"A">>)>>),
                  ImportDeclaration(LIB \o <<"/","B">>, <<ImportDefaultSpecifier(<<"C">>)>>)>>

(***************************************************************************)
(* C3: with skipDefaultConversion every named specifier of a configured    *)
(* import, aliased or not, is emitted unchanged as a named specifier, in   *)
(* its own declaration from the resolved path.                             *)
(***************************************************************************)
NamedDeclaration(node, specifier, rule) ==
    [type |-> "ImportDeclaration",
     source |-> [type |-> "StringLiteral", value |-> ResolvedPath(specifier, rule)],
     specifiers |-> <<specifier>>]

C3_NamedStaysNamed ==
    [][(Visited /\ IsConfigured(nodes[i])
          /\ RuleFlag(RuleOf(nodes[i]), "skipDefaultConversion"))
       => LET named == NamedOf(nodes[i])
              conv == ConvertedOf(nodes[i], Added)
          IN  /\ Len(conv) = Len(named)
              /\ \A k \in 1..Len(named) :
                     conv[k] = NamedDeclaration(nodes[i], named[k], RuleOf(nodes[i]))]_vars

(***************************************************************************)
(* C4: without preventFullImport every default and every namespace         *)
(* specifier of a configured import is emitted in a declaration of its     *)
(* own from the original source path, so no local binding is lost.         *)
(***************************************************************************)
C4_FullSpecifiersKept ==
    [][(Visited /\ IsConfigured(nodes[i])
          /\ ~RuleFlag(RuleOf(nodes[i]), "preventFullImport"))
       => LET full == FullOf(nodes[i])
              Kept(decl) == IsKeptFull(nodes[i], decl)
              kept == SelectSeq(Added, Kept)
          IN  /\ Len(kept) = Len(full)
              /\ \A k \in 1..Len(full) :
                     kept[k] = ImportDeclaration(nodes[i].source.value, <<full[k]>>)]_vars

(***************************************************************************)
(* C5: with a non-empty configuration, an import whose source path is not  *)
(* a key of the supplied table is put into the output once, unchanged, at  *)
(* its place, whatever the source path is.                                 *)
(***************************************************************************)
C5_UnconfiguredImportUnchanged ==
    [][(AtNode /\ nodes[i].type = "ImportDeclaration" /\ ~IsConfigured(nodes[i]))
       => (Visited /\ transformedNodes' = Append(transformedNodes, nodes[i]))]_vars

(***************************************************************************)
(* C6: with style, each declaration made from a named specifier is         *)
(* followed at once by one declaration without specifiers whose source is  *)
(* that declaration's path with "/style" appended, and nothing else makes  *)
(* a declaration without specifiers; without style none is emitted.        *)
(***************************************************************************)
IsSideEffectOnly(decl) == decl.specifiers = <<>>

StyleDeclaration(path) ==
    [type |-> "ImportDeclaration",
     source |-> [type |-> "StringLiteral",
                 value |-> (IF path = Undefined THEN <<"u","n","d","e","f","i","n","e","d">>
                            ELSE path) \o <<"/","s","t","y","l","e">>],
     specifiers |-> <<>>]

C6_StyleFollowsConverted ==
    [][(Visited /\ IsConfigured(nodes[i]))
       => LET added == Added
              IsConverted(decl) == decl.specifiers # <<>> /\ ~IsKeptFull(nodes[i], decl)
          IN  IF RuleFlag(RuleOf(nodes[i]), "style")
              THEN /\ \A p \in 1..Len(added) :
                          IsConverted(added[p]) =>
                              /\ p < Len(added)
                              /\ added[p + 1] = StyleDeclaration(added[p].source.value)
                   /\ \A p \in 1..Len(added) :
                          IsSideEffectOnly(added[p]) => (p > 1 /\ IsConverted(added[p - 1]))
                   /\ Len(SelectSeq(added, IsSideEffectOnly)) = Len(NamedOf(nodes[i]))
              ELSE \A p \in 1..Len(added) : ~IsSideEffectOnly(added[p])]_vars

\* import D, { A } from 'lib' with style: the default import, the member import, its style
C6_Witness ==
    /\ pc = "returned"
    /\ nodes = <<ImportDeclaration(LIB, <<ImportDefaultSpecifier(<<"D">>),
                                         ImportSpecifier(Null, <<"A">>)>>)>>
    /\ LIB \in DOMAIN opts
    /\ RuleFlag(opts[LIB], "style")
    /\ result = <<ImportDeclaration(LIB, <<ImportDefaultSpecifier(<<"D">>)>>),
                  ImportDeclaration(LIB \o <<"/","A">>, <<ImportDefaultSpecifier(<<"A">>)>>),
                  ImportDeclaration(LIB \o <<"/","A","/","s","t","y","l","e">>, <<>>)>>

(***************************************************************************)
(* C7: for a literal template the resolver returns the template with every *)
(* placeholder occurrence replaced by the member name verbatim and every   *)
(* other character unaltered, for every member name that is an identifier. *)
(***************************************************************************)
RECURSIVE VerbatimFrom(_, _, _)
VerbatimFrom(s, p, member) ==
    IF p > Len(s) THEN <<>>
    ELSE IF MatchLen(s, p) > 0
         THEN member \o VerbatimFrom(s, p + MatchLen(s, p), member)
         ELSE <<s[p]>> \o VerbatimFrom(s, p + 1, member)

IsLiteralTemplate(opt) ==
    /\ opt.kind = "string"
    /\ opt.val # <<>>
    /\ ~(EndsWithJs(opt.val) /\ ~HasPlaceholderChar(opt.val))

C7_PlaceholderReplacedVerbatim ==
    (pc = "resolved" /\ IsLiteralTemplate(transformOption))
    => (resolved.ok /\ resolved.value = VerbatimFrom(transformOption.val, 1, importName))

(***************************************************************************)
(* C8: a failure of path resolution fails the rewrite with the transform   *)
(* function error naming the offending reference, whether the reference    *)
(* cannot be loaded, the value is not callable, or the mapping function    *)
(* raises; nothing is returned.                                            *)
(***************************************************************************)
\* the loop threw at nodes[i], and not because of preventFullImport
ResolutionFailed ==
    /\ pc = "threw"
    /\ i <= Len(nodes)
    /\ ~IsFullImportPrevented(nodes[i], GetOpts(opts, nodes[i].source.value))

IsTransformFunctionError(e, reference) ==
    /\ e.name = "Error"
    /\ e.message[1] = "swc-plugin-transform-imports: "
    /\ e.message[2] \in {"failed to require transform file ",
                        "expected transform function to be exported from "}
    /\ e.message[3] = reference

C8_ResolutionFailureIsTransformError ==
    ResolutionFailed
    => /\ result = <<>>
       /\ IsTransformFunctionError(
              error, RuleTransform(GetOpts(opts, nodes[i].source.value)).val)

\* C8 as the code has it: a reference that cannot be loaded or whose export is
\* not callable fails the rewrite with the transform function error naming the
\* reference; a mapping function that raises fails it with the function's own
\* error, unwrapped; in each case nothing is returned.
C8_ResolutionFailureKinds ==
    ResolutionFailed
    => LET option == RuleTransform(GetOpts(opts, nodes[i].source.value))
       IN  /\ result = <<>>
           /\ option.kind \in {"string", "function"}
           /\ option.kind = "function" => error = UserError
           /\ option.kind = "string" =>
                  /\ EndsWithJs(option.val)
                  /\ ~Require(option.val).loaded =>
                         error = barf("failed to require transform file ", option.val)
                  /\ (Require(option.val).loaded
                        /\ Require(option.val).exports.kind # "function") =>
                         error = barf("expected transform function to be exported from ",
                                      option.val)
                  /\ (Require(option.val).loaded
                        /\ Require(option.val).exports.kind = "function") =>
                         error = UserError

\* import { A } from 'lib' under transform "x.js", which cannot be loaded
C8_Witness ==
    /\ pc = "threw"
    /\ nodes = <<[type |-> "ExpressionStatement"],
                 ImportDeclaration(LIB, <<ImportSpecifier(Null, <<"A">>)>>)>>
    /\ i = 2
    /\ LIB \in DOMAIN opts
    /\ RuleTransform(opts[LIB]) = StringOption(MISSING_JS)
    /\ error = barf("failed to require transform file ", MISSING_JS)
    /\ result = <<>>

(***************************************************************************)
(* C9: a rewriter given an empty table, or no options at all, returns the  *)
(* statement sequence it was handed: same length, statements and order.    *)
(***************************************************************************)
C9_EmptyConfigIsIdentity ==
    (pc = "returned" /\ (~supplied.given \/ DOMAIN supplied.table = {}))
    => /\ Len(result) = Len(nodes)
       /\ \A k \in 1..Len(nodes) : result[k] = nodes[k]

\* constructed without options, handed an import of "lib" and a statement
C9_Witness ==
    /\ pc = "returned"
    /\ ~supplied.given
    /\ nodes = <<ImportDeclaration(LIB, <<ImportSpecifier(Null, <<"A">>),
                                         ImportSpecifier(<<"B">>, <<"C">>)>>),
                 [type |-> "ExpressionStatement"]>>
    /\ result = nodes

(***************************************************************************)
(* C10: the output of a successful rewrite is the concatenation, in input  *)
(* order, of what each statement is replaced by; a statement that is not   *)
(* an import is replaced by itself, so it appears once, unchanged, after   *)
(* the output of what preceded it and before the output of what follows.   *)
(***************************************************************************)
CountOf(seq, x) == Cardinality({k \in 1..Len(seq) : seq[k] = x})

C10_OutputIsConcatenation ==
    [][/\ pc = "loop" =>
              /\ Len(transformedNodes') >= Len(transformedNodes)
              /\ SubSeq(transformedNodes', 1, Len(transformedNodes)) = transformedNodes
       /\ (pc = "loop" /\ pc' = "loop") => i' = i + 1
       /\ (AtNode /\ nodes[i].type # "ImportDeclaration") =>
              (Visited /\ Added = <<nodes[i]>>)
       /\ (pc = "loop" /\ pc' = "returned") =>
              /\ i = Len(nodes) + 1
              /\ result' = transformedNodes
              /\ \A st \in NonImports : CountOf(result', st) = CountOf(nodes, st)]_vars

\* a statement, import { A } from 'lib', a statement: the import is rewritten between them
C10_Witness ==
    /\ pc = "returned"
    /\ DOMAIN opts # {}
    /\ nodes = <<[type |-> "ExpressionStatement"],
                 ImportDeclaration(LIB, <<ImportSpecifier(Null, <<"A">>)>>),
                 [type |-> "ExpressionStatement"]>>
    /\ result = <<[type |-> "ExpressionStatement"],
                  ImportDeclaration(LIB \o <<"/","A">>, <<ImportDefaultSpecifier(<<"A">>)>>),
                  [type |-> "ExpressionStatement"]>>

====
